---- MODULE Spec2Model ----
(***************************************************************************)
(* The order queue and bot assignment engine of app/page.tsx (component    *)
(* Home).  The React state (orders, bots, nextOrderId, nextBotId) and the  *)
(* timers it has scheduled are the variables; every event handler, timer   *)
(* callback and the order processing effect is one action.  A handler and  *)
(* the render that applies its batched state updaters form one step; the   *)
(* order processing effect runs after a render and is a step of its own.   *)
(* The display-only fields of an order (progress, animation) are left out: *)
(* no handler reads them.                                                  *)
(*                                                                         *)
(* Time is not counted.  The scheduled timers are kept in the order in     *)
(* which setTimeout was called, and a timer fires only when its delay      *)
(* allows it: a cook timer (COOKING_TIME_MS) fires after every timer        *)
(* scheduled before it; a removal timer (ORDER_REMOVAL_ANIMATION_MS, the   *)
(* shorter delay) fires after every removal timer scheduled before it and  *)
(* may fire before cook timers scheduled before it.                        *)
(***************************************************************************)
EXTENDS Integers, Sequences, FiniteSets, TLC

\* Bounds of the model: how many order ids and bot ids are ever given out.
MaxOrders == 3
MaxBots == 2

\* An optional field that is absent (botId?, startTime?, processingOrderId?).
undefined == 0
\* Date.now() at assignment: some positive timestamp; only its presence is read.
DateNow == 1

VARIABLES
    orders,       \* useState<Order[]>: sequence of order records
    nextOrderId,  \* useState(1)
    bots,         \* useState<Bot[]>: sequence of bot records
    nextBotId,    \* useState(1)
    timers,       \* the live timers, in the order they were scheduled
    freedBot      \* history: the bot id the preceding step's cancelOrder set IDLE, else 0

vars == <<orders, nextOrderId, bots, nextBotId, timers, freedBot>>

\* A cook timer (assignOrderToBot) and a removal timer (cancelOrder).
CookTimer(botId, orderId) == [kind |-> "cook", botId |-> botId, orderId |-> orderId]
RemovalTimer(orderId) == [kind |-> "removal", botId |-> 0, orderId |-> orderId]

\* timeoutsRef.current: the keys `bot-${botId}-order-${orderId}` of the live
\* cook timers, as pairs.
timeouts == {<<timers[i].botId, timers[i].orderId>> :
                i \in {k \in 1..Len(timers) : timers[k].kind = "cook"}}

\* The ids of the orders with a live removal timer.
removals == {timers[i].orderId :
                i \in {k \in 1..Len(timers) : timers[k].kind = "removal"}}

\* clearTimeout: the timer is taken off the list.
clearTimeout(ts, timer) == LET Other(t) == t # timer IN SelectSeq(ts, Other)

\* setTimeout: the timer goes to the end of the list.  A second removal
\* timer for an order that has one adds nothing: when it fires the order is
\* gone already.
setTimeout(ts, timer) ==
    IF \E i \in 1..Len(ts) : ts[i] = timer THEN ts ELSE Append(ts, timer)

\* Whether timer ts[i] may fire now.
MayFire(ts, i) ==
    IF ts[i].kind = "cook"
    THEN i = 1
    ELSE \A j \in 1..(i - 1) : ts[j].kind # "removal"

OrderIds == 1..MaxOrders
BotIds == 1..MaxBots

----------------------------------------------------------------------------
\* Array helpers of the handlers.

\* Array.prototype.reverse on a copy.
Reverse(s) == [i \in 1..Len(s) |-> s[Len(s) + 1 - i]]

\* Array.prototype.slice(from, to) and slice(from), 0-based, end exclusive.
Slice(s, from, to) == SubSeq(s, from + 1, to)
SliceFrom(s, from) == SubSeq(s, from + 1, Len(s))

\* Array.prototype.find by id: the set of matching records (empty: undefined).
HasOrder(os, id) == \E i \in 1..Len(os) : os[i].id = id
FindOrder(os, id) == os[CHOOSE i \in 1..Len(os) :
                          os[i].id = id /\ \A j \in 1..(i - 1) : os[j].id # id]
HasBot(bs, id) == \E i \in 1..Len(bs) : bs[i].id = id
FindBot(bs, id) == bs[CHOOSE i \in 1..Len(bs) :
                        bs[i].id = id /\ \A j \in 1..(i - 1) : bs[j].id # id]

IsPending(o) == o.status = "PENDING"
IsProcessing(o) == o.status = "PROCESSING"
IsComplete(o) == o.status = "COMPLETE"
IsVIPPending(o) == o.isVIP /\ o.status = "PENDING"
IsNormalPending(o) == ~o.isVIP /\ o.status = "PENDING"
IsVIP(o) == o.isVIP
IsNormal(o) == ~o.isVIP
IsIdle(b) == b.status = "IDLE"

\* Array.prototype.findIndex with the two tests the handlers use: the
\* 0-based index of the first element passing the test, -1 when there is none.
FindIndexVIPPending(s) ==
    IF \E i \in 1..Len(s) : IsVIPPending(s[i])
    THEN (CHOOSE i \in 1..Len(s) :
            IsVIPPending(s[i]) /\ \A j \in 1..(i - 1) : ~IsVIPPending(s[j])) - 1
    ELSE -1

FindIndexNormalPending(s) ==
    IF \E i \in 1..Len(s) : IsNormalPending(s[i])
    THEN (CHOOSE i \in 1..Len(s) :
            IsNormalPending(s[i]) /\ \A j \in 1..(i - 1) : ~IsNormalPending(s[j])) - 1
    ELSE -1

\* Derived state of the component.
pendingOrders == SelectSeq(orders, IsPending)
processingOrders == SelectSeq(orders, IsProcessing)
completeOrders == SelectSeq(orders, IsComplete)

----------------------------------------------------------------------------
\* State after construction.
Init ==
    /\ orders = <<>>
    /\ nextOrderId = 1
    /\ bots = <<>>
    /\ nextBotId = 1
    /\ timers = <<>>
    /\ freedBot = 0

----------------------------------------------------------------------------
\* addNormalOrder
\* Variant of NewOrder: the id is the number of orders present plus one.
NewOrderCountsPresent(id, vip) ==
    [id |-> Len(orders) + 1, status |-> "PENDING", isVIP |-> vip,
     botId |-> undefined, startTime |-> undefined]

NewOrder(id, vip) ==
    [id |-> id, status |-> "PENDING", isVIP |-> vip,
     botId |-> undefined, startTime |-> undefined]

\* Variant of addNormalOrderUpdater: the order is put at the front.
addNormalOrderPrepends(prevOrders, newOrder) == <<newOrder>> \o prevOrders

addNormalOrderUpdater(prevOrders, newOrder) == Append(prevOrders, newOrder)

addNormalOrder ==
    /\ nextOrderId <= MaxOrders
    /\ orders' = addNormalOrderUpdater(orders, NewOrder(nextOrderId, FALSE))
    /\ nextOrderId' = nextOrderId + 1
    /\ freedBot' = 0
    /\ UNCHANGED <<bots, nextBotId, timers>>

\* Variant of addVIPOrderUpdater: the VIP order goes to the very front.
addVIPOrderAtFront(prevOrders, newOrder) == <<newOrder>> \o prevOrders

\* Variant of addVIPOrderUpdater: the VIP order takes the place of the
\* NORMAL orders in process, which go back to PENDING.
addVIPOrderPreempts(prevOrders, newOrder) ==
    <<newOrder>> \o
    [i \in 1..Len(prevOrders) |->
        IF ~prevOrders[i].isVIP /\ prevOrders[i].status = "PROCESSING"
        THEN [prevOrders[i] EXCEPT !.status = "PENDING",
                                   !.botId = undefined,
                                   !.startTime = undefined]
        ELSE prevOrders[i]]

\* Variant of addVIPOrderUpdater: the VIP order is appended like a normal one.
addVIPOrderAppends(prevOrders, newOrder) == Append(prevOrders, newOrder)

\* addVIPOrder: behind the last pending VIP order, else before the first
\* pending normal order, else at the end.
addVIPOrderUpdater(prevOrders, newOrder) ==
    LET lastVIPIndex == FindIndexVIPPending(Reverse(prevOrders))
        firstNormalPendingIndex == FindIndexNormalPending(prevOrders)
        insertIndex == Len(prevOrders) - lastVIPIndex
    IN  IF lastVIPIndex = -1
        THEN IF firstNormalPendingIndex = -1
             THEN Append(prevOrders, newOrder)
             ELSE Slice(prevOrders, 0, firstNormalPendingIndex)
                    \o <<newOrder>>
                    \o SliceFrom(prevOrders, firstNormalPendingIndex)
        ELSE Slice(prevOrders, 0, insertIndex)
               \o <<newOrder>>
               \o SliceFrom(prevOrders, insertIndex)

addVIPOrder ==
    /\ nextOrderId <= MaxOrders
    /\ orders' = addVIPOrderUpdater(orders, NewOrder(nextOrderId, TRUE))
    /\ nextOrderId' = nextOrderId + 1
    /\ freedBot' = 0
    /\ UNCHANGED <<bots, nextBotId, timers>>

\* cancelOrder(orderId).  The handler reads the orders of the last render.
\* A PROCESSING order with a botId gets its cook timer cleared and its bot
\* set IDLE; the order itself only gets the 'removing' animation and a
\* removal timer: its status and botId stay as they are until that fires.
cancelFreesBot(orderToCancel) ==
    orderToCancel.status = "PROCESSING" /\ orderToCancel.botId # undefined

\* Variant of cancelOrderBots: the bot is set IDLE but keeps its order id.
cancelOrderKeepsOrderId(prevBots, orderToCancel) ==
    [i \in 1..Len(prevBots) |->
        IF prevBots[i].id = orderToCancel.botId
        THEN [prevBots[i] EXCEPT !.status = "IDLE"]
        ELSE prevBots[i]]

\* Variant of cancelOrderBots: the bot of the cancelled order is left busy.
cancelOrderKeepsBotBusy(prevBots, orderToCancel) == prevBots

cancelOrderBots(prevBots, orderToCancel) ==
    [i \in 1..Len(prevBots) |->
        IF prevBots[i].id = orderToCancel.botId
        THEN [prevBots[i] EXCEPT !.status = "IDLE",
                                 !.processingOrderId = undefined]
        ELSE prevBots[i]]

cancelOrderTimeouts(ts, orderToCancel) ==
    clearTimeout(ts, CookTimer(orderToCancel.botId, orderToCancel.id))

cancelOrder(orderId) ==
    IF ~HasOrder(orders, orderId)
    THEN /\ freedBot' = 0
         /\ UNCHANGED <<orders, nextOrderId, bots, nextBotId, timers>>
    ELSE LET orderToCancel == FindOrder(orders, orderId)
         IN  /\ IF cancelFreesBot(orderToCancel)
                THEN /\ timers' = setTimeout(cancelOrderTimeouts(timers, orderToCancel),
                                             RemovalTimer(orderId))
                     /\ bots' = cancelOrderBots(bots, orderToCancel)
                     /\ freedBot' = orderToCancel.botId
                ELSE /\ timers' = setTimeout(timers, RemovalTimer(orderId))
                     /\ UNCHANGED bots
                     /\ freedBot' = 0
             /\ UNCHANGED <<orders, nextOrderId, nextBotId>>

\* The removal timer set by cancelOrder (ORDER_REMOVAL_ANIMATION_MS later).
\* Variant of removeOrderUpdater: only a PENDING order is taken out.
removeOnlyPendingOrder(prevOrders, orderId) ==
    LET Keep(o) == o.id # orderId \/ o.status # "PENDING"
    IN  SelectSeq(prevOrders, Keep)

removeOrderUpdater(prevOrders, orderId) ==
    LET Keep(o) == o.id # orderId IN SelectSeq(prevOrders, Keep)

removalTimeout(orderId) ==
    /\ \E i \in 1..Len(timers) :
          timers[i] = RemovalTimer(orderId) /\ MayFire(timers, i)
    /\ orders' = removeOrderUpdater(orders, orderId)
    /\ timers' = clearTimeout(timers, RemovalTimer(orderId))
    /\ freedBot' = 0
    /\ UNCHANGED <<nextOrderId, bots, nextBotId>>

----------------------------------------------------------------------------
\* addBot
NewBot(id) == [id |-> id, status |-> "IDLE", processingOrderId |-> undefined]

\* Variant of addBot: the new bot's id is the number of bots present plus one.
addBotReusesId ==
    /\ nextBotId <= MaxBots
    /\ bots' = Append(bots, NewBot(Len(bots) + 1))
    /\ nextBotId' = nextBotId + 1
    /\ freedBot' = 0
    /\ UNCHANGED <<orders, nextOrderId, timers>>

\* Variant of addBot: the new bot is put at the front of the array.
addBotPrepends ==
    /\ nextBotId <= MaxBots
    /\ bots' = <<NewBot(nextBotId)>> \o bots
    /\ nextBotId' = nextBotId + 1
    /\ freedBot' = 0
    /\ UNCHANGED <<orders, nextOrderId, timers>>

addBot ==
    /\ nextBotId <= MaxBots
    /\ bots' = Append(bots, NewBot(nextBotId))
    /\ nextBotId' = nextBotId + 1
    /\ freedBot' = 0
    /\ UNCHANGED <<orders, nextOrderId, timers>>

\* removeBot: the last bot of the array goes; the order it is processing
\* is taken out of the sequence and put back as PENDING.
removeBotReturns(botToRemove) ==
    botToRemove.status = "PROCESSING" /\ botToRemove.processingOrderId # undefined

\* Variant of removeBotUpdater: the order of the removed bot is dropped.
removeBotDropsOrder(prevOrders, botToRemove) ==
    removeOrderUpdater(prevOrders, botToRemove.processingOrderId)

\* Variant of removeBotUpdater: the order is reset to PENDING where it stands.
removeBotResetsInPlace(prevOrders, botToRemove) ==
    [i \in 1..Len(prevOrders) |->
        IF prevOrders[i].id = botToRemove.processingOrderId
        THEN [prevOrders[i] EXCEPT !.status = "PENDING",
                                   !.botId = undefined,
                                   !.startTime = undefined]
        ELSE prevOrders[i]]

\* Variant of removeBotUpdater: the returned order always goes to the end.
removeBotAppendsReturned(prevOrders, botToRemove) ==
    IF ~HasOrder(prevOrders, botToRemove.processingOrderId)
    THEN prevOrders
    ELSE Append(removeOrderUpdater(prevOrders, botToRemove.processingOrderId),
                [FindOrder(prevOrders, botToRemove.processingOrderId)
                    EXCEPT !.status = "PENDING",
                           !.botId = undefined,
                           !.startTime = undefined])

removeBotUpdater(prevOrders, botToRemove) ==
    IF ~HasOrder(prevOrders, botToRemove.processingOrderId)
    THEN prevOrders
    ELSE LET orderToReturn == FindOrder(prevOrders, botToRemove.processingOrderId)
             updatedOrders == removeOrderUpdater(prevOrders, botToRemove.processingOrderId)
             returnedOrder == [orderToReturn EXCEPT !.status = "PENDING",
                                                    !.botId = undefined,
                                                    !.startTime = undefined]
             lastVIPIndex == FindIndexVIPPending(Reverse(updatedOrders))
             firstNormalPendingIndex == FindIndexNormalPending(updatedOrders)
             insertIndex == Len(updatedOrders) - lastVIPIndex
         IN  IF returnedOrder.isVIP
             THEN IF lastVIPIndex = -1
                  THEN IF firstNormalPendingIndex = -1
                       THEN Append(updatedOrders, returnedOrder)
                       ELSE Slice(updatedOrders, 0, firstNormalPendingIndex)
                              \o <<returnedOrder>>
                              \o SliceFrom(updatedOrders, firstNormalPendingIndex)
                  ELSE Slice(updatedOrders, 0, insertIndex)
                         \o <<returnedOrder>>
                         \o SliceFrom(updatedOrders, insertIndex)
             ELSE Append(updatedOrders, returnedOrder)

\* Variant of removeBotTimeouts: the cook timer of the removed bot stays live.
removeBotKeepsTimer(ts, botToRemove) == ts

removeBotTimeouts(ts, botToRemove) ==
    clearTimeout(ts, CookTimer(botToRemove.id, botToRemove.processingOrderId))

\* Variant of removeBotBots: the first bot of the array goes, not the last.
removeBotDropsFirst(prevBots) == SliceFrom(prevBots, 1)

removeBotBots(prevBots) == Slice(prevBots, 0, Len(prevBots) - 1)

\* Variant of removeBot: with no bot present the bot id counter starts over.
removeBotResetsCounter ==
    IF Len(bots) = 0
    THEN /\ nextBotId' = 1
         /\ freedBot' = 0
         /\ UNCHANGED <<orders, nextOrderId, bots, timers>>
    ELSE LET botToRemove == bots[Len(bots)]
         IN  /\ IF removeBotReturns(botToRemove)
                THEN /\ timers' = removeBotTimeouts(timers, botToRemove)
                     /\ orders' = removeBotUpdater(orders, botToRemove)
                ELSE UNCHANGED <<timers, orders>>
             /\ bots' = removeBotBots(bots)
             /\ freedBot' = 0
             /\ UNCHANGED <<nextOrderId, nextBotId>>

removeBot ==
    IF Len(bots) = 0
    THEN /\ freedBot' = 0
         /\ UNCHANGED <<orders, nextOrderId, bots, nextBotId, timers>>
    ELSE LET botToRemove == bots[Len(bots)]
         IN  /\ IF removeBotReturns(botToRemove)
                THEN /\ timers' = removeBotTimeouts(timers, botToRemove)
                     /\ orders' = removeBotUpdater(orders, botToRemove)
                ELSE UNCHANGED <<timers, orders>>
             /\ bots' = removeBotBots(bots)
             /\ freedBot' = 0
             /\ UNCHANGED <<nextOrderId, nextBotId>>

----------------------------------------------------------------------------
\* Order processing effect and assignOrderToBot.
\* Variant of idleBotsOf: the IDLE bot added last comes first.
idleBotsNewestFirst(bs) == Reverse(SelectSeq(bs, IsIdle))

idleBotsOf(bs) == SelectSeq(bs, IsIdle)

\* Variant of prioritizedOrdersOf: the NORMAL orders come first.
normalOrdersFirst(os) ==
    SelectSeq(SelectSeq(os, IsPending), IsNormal)
      \o SelectSeq(SelectSeq(os, IsPending), IsVIP)

prioritizedOrdersOf(os) ==
    SelectSeq(SelectSeq(os, IsPending), IsVIP)
      \o SelectSeq(SelectSeq(os, IsPending), IsNormal)

\* Variant of assignBots: the bot gets the order id but keeps its status.
assignBotsKeepsStatus(prevBots, bot, order) ==
    [i \in 1..Len(prevBots) |->
        IF prevBots[i].id = bot.id
        THEN [prevBots[i] EXCEPT !.processingOrderId = order.id]
        ELSE prevBots[i]]

assignBots(prevBots, bot, order) ==
    [i \in 1..Len(prevBots) |->
        IF prevBots[i].id = bot.id
        THEN [prevBots[i] EXCEPT !.status = "PROCESSING",
                                 !.processingOrderId = order.id]
        ELSE prevBots[i]]

\* Variant of assignOrders: the order gets its bot but keeps its status.
assignOrdersKeepsStatus(prevOrders, bot, order) ==
    [i \in 1..Len(prevOrders) |->
        IF prevOrders[i].id = order.id
        THEN [prevOrders[i] EXCEPT !.botId = bot.id, !.startTime = DateNow]
        ELSE prevOrders[i]]

assignOrders(prevOrders, bot, order) ==
    [i \in 1..Len(prevOrders) |->
        IF prevOrders[i].id = order.id
        THEN [prevOrders[i] EXCEPT !.status = "PROCESSING",
                                   !.botId = bot.id,
                                   !.startTime = DateNow]
        ELSE prevOrders[i]]

assignTimeouts(ts, bot, order) ==
    setTimeout(clearTimeout(ts, CookTimer(bot.id, order.id)),
               CookTimer(bot.id, order.id))

assignOrderToBot(bot, order) ==
    /\ bots' = assignBots(bots, bot, order)
    /\ orders' = assignOrders(orders, bot, order)
    /\ timers' = assignTimeouts(timers, bot, order)

orderProcessingEffect ==
    /\ Len(idleBotsOf(bots)) > 0
    /\ Len(prioritizedOrdersOf(orders)) > 0
    /\ assignOrderToBot(idleBotsOf(bots)[1], prioritizedOrdersOf(orders)[1])
    /\ freedBot' = 0
    /\ UNCHANGED <<nextOrderId, nextBotId>>

\* handleOrderComplete(bot, order, timeoutKey): the cook timer of the pair
\* fires.  The pairing is checked against the current bots.
\* Variant of pairingLive: the order the bot is processing is not compared.
pairingLiveAnyOrder(currentBots, botId, orderId) ==
    /\ HasBot(currentBots, botId)
    /\ FindBot(currentBots, botId).status = "PROCESSING"

pairingLive(currentBots, botId, orderId) ==
    /\ HasBot(currentBots, botId)
    /\ FindBot(currentBots, botId).status = "PROCESSING"
    /\ FindBot(currentBots, botId).processingOrderId = orderId

\* Variant of completeOrdersUpdater: the completed order keeps its botId.
completeKeepsBotId(currentOrders, botId, orderId) ==
    [i \in 1..Len(currentOrders) |->
        IF /\ currentOrders[i].id = orderId
           /\ currentOrders[i].status = "PROCESSING"
           /\ currentOrders[i].botId = botId
        THEN [currentOrders[i] EXCEPT !.status = "COMPLETE",
                                      !.startTime = undefined]
        ELSE currentOrders[i]]

completeOrdersUpdater(currentOrders, botId, orderId) ==
    [i \in 1..Len(currentOrders) |->
        IF /\ currentOrders[i].id = orderId
           /\ currentOrders[i].status = "PROCESSING"
           /\ currentOrders[i].botId = botId
        THEN [currentOrders[i] EXCEPT !.status = "COMPLETE",
                                      !.botId = undefined,
                                      !.startTime = undefined]
        ELSE currentOrders[i]]

\* Variant of completeBotsUpdater: the bot is not set back to IDLE.
completeKeepsBotBusy(currentBots, botId) == currentBots

completeBotsUpdater(currentBots, botId) ==
    [i \in 1..Len(currentBots) |->
        IF currentBots[i].id = botId
        THEN [currentBots[i] EXCEPT !.status = "IDLE",
                                    !.processingOrderId = undefined]
        ELSE currentBots[i]]

handleOrderComplete(botId, orderId) ==
    /\ \E i \in 1..Len(timers) :
          timers[i] = CookTimer(botId, orderId) /\ MayFire(timers, i)
    /\ IF pairingLive(bots, botId, orderId)
       THEN /\ orders' = completeOrdersUpdater(orders, botId, orderId)
            /\ bots' = completeBotsUpdater(bots, botId)
       ELSE UNCHANGED <<orders, bots>>
    /\ timers' = clearTimeout(timers, CookTimer(botId, orderId))
    /\ freedBot' = 0
    /\ UNCHANGED <<nextOrderId, nextBotId>>

----------------------------------------------------------------------------
Next ==
    \/ addNormalOrder
    \/ addVIPOrder
    \/ \E orderId \in OrderIds : cancelOrder(orderId)
    \/ \E orderId \in OrderIds : removalTimeout(orderId)
    \/ addBot
    \/ removeBot
    \/ orderProcessingEffect
    \/ \E botId \in BotIds, orderId \in OrderIds : handleOrderComplete(botId, orderId)

Spec == Init /\ [][Next]_vars

\* The effect runs after every render that changed orders or bots, and a
\* timer that has been scheduled and not cleared fires.
FairSpec ==
    /\ Spec
    /\ WF_vars(orderProcessingEffect)
    /\ \A orderId \in OrderIds : WF_vars(removalTimeout(orderId))
    /\ \A botId \in BotIds, orderId \in OrderIds :
          WF_vars(handleOrderComplete(botId, orderId))

\* The effect run again and again on its own result, with no other step in
\* between, until it assigns nothing more.
RECURSIVE MatchAll(_, _)
MatchAll(os, bs) ==
    IF Len(idleBotsOf(bs)) > 0 /\ Len(prioritizedOrdersOf(os)) > 0
    THEN MatchAll(assignOrders(os, idleBotsOf(bs)[1], prioritizedOrdersOf(os)[1]),
                  assignBots(bs, idleBotsOf(bs)[1], prioritizedOrdersOf(os)[1]))
    ELSE [orders |-> os, bots |-> bs]

\* The shape of the state.
TypeOK ==
    /\ nextOrderId \in 1..(MaxOrders + 1)
    /\ nextBotId \in 1..(MaxBots + 1)
    /\ \A i \in 1..Len(orders) :
          /\ orders[i].id \in 1..(nextOrderId - 1)
          /\ orders[i].status \in {"PENDING", "PROCESSING", "COMPLETE"}
          /\ orders[i].isVIP \in BOOLEAN
          /\ orders[i].botId \in 0..(nextBotId - 1)
          /\ orders[i].startTime \in {undefined, DateNow}
    /\ \A i \in 1..Len(bots) :
          /\ bots[i].id \in 1..(nextBotId - 1)
          /\ bots[i].status \in {"IDLE", "PROCESSING"}
          /\ bots[i].processingOrderId \in 0..(nextOrderId - 1)
    /\ \A i \in 1..Len(timers) :
          \/ \E b \in BotIds, o \in OrderIds : timers[i] = CookTimer(b, o)
          \/ \E o \in OrderIds : timers[i] = RemovalTimer(o)
    /\ \A i, j \in 1..Len(timers) : timers[i] = timers[j] => i = j
    /\ freedBot \in 0..MaxBots

----------------------------------------------------------------------------
\* Helpers of the properties.
Idx(s) == 1..Len(s)

\* The ids of the PENDING orders of one priority class, in sequence order.
PendingIdsOf(os, vip) ==
    LET InClass(o) == o.status = "PENDING" /\ o.isVIP = vip
        sel == SelectSeq(os, InClass)
    IN  [i \in 1..Len(sel) |-> sel[i].id]

SeqRange(s) == {s[i] : i \in 1..Len(s)}

\* s restricted to the elements of set S, order kept.
Restrict(s, S) == LET In(x) == x \in S IN SelectSeq(s, In)

----------------------------------------------------------------------------
\* C1: in every reachable state every PENDING VIP order stands before every
\* PENDING NORMAL order in the order sequence.
C1_VIPBeforeNormal ==
    \A i, j \in Idx(orders) :
        IsVIPPending(orders[i]) /\ IsNormalPending(orders[j]) => i < j

\* A PENDING VIP order stands before a PENDING NORMAL order submitted earlier.
C1_Witness ==
    \E i, j \in Idx(orders) :
        /\ IsVIPPending(orders[i]) /\ IsNormalPending(orders[j])
        /\ orders[i].id > orders[j].id
        /\ i < j

\* C2 as claimed: in every reachable state the PENDING orders of one
\* priority class stand in ascending order of id.
C2_AscendingIds ==
    \A i, j \in Idx(orders) :
        /\ IsPending(orders[i]) /\ IsPending(orders[j])
        /\ orders[i].isVIP = orders[j].isVIP
        /\ i < j
        => orders[i].id < orders[j].id

\* C2 (amended): within a priority class the PENDING orders stand in the
\* order in which they became PENDING: every step keeps the relative order
\* of the orders that stay PENDING and puts an order that becomes PENDING
\* (submitted, or returned by removeBot) behind them.
C2_PendingFifo ==
    [][\A vip \in BOOLEAN :
         LET old == PendingIdsOf(orders, vip)
             new == PendingIdsOf(orders', vip)
             stay == SeqRange(old) \cap SeqRange(new)
         IN  /\ Restrict(old, stay) = Restrict(new, stay)
             /\ \A i, j \in Idx(new) :
                   new[i] \notin stay /\ new[j] \in stay => j < i]_vars

\* A returned order stands behind a PENDING order of its class that was
\* submitted after it.
C2_Witness ==
    \E i, j \in Idx(orders) :
        /\ IsPending(orders[i]) /\ IsPending(orders[j])
        /\ orders[i].isVIP = orders[j].isVIP
        /\ i < j
        /\ orders[i].id > orders[j].id

\* C3: in every reachable state two different bots with status PROCESSING
\* have different processingOrderId values.
C3_NoOrderOnTwoBots ==
    \A i, j \in Idx(bots) :
        /\ i # j
        /\ bots[i].status = "PROCESSING" /\ bots[j].status = "PROCESSING"
        => bots[i].processingOrderId # bots[j].processingOrderId

\* Two bots are PROCESSING at once.
C3_Witness ==
    \E i, j \in Idx(bots) :
        /\ i # j
        /\ bots[i].status = "PROCESSING" /\ bots[j].status = "PROCESSING"
        /\ bots[i].processingOrderId # undefined
        /\ bots[j].processingOrderId # undefined

\* C4 as claimed: in every reachable state no two different PROCESSING
\* orders carry the same botId.
C4_OneOrderPerBot ==
    \A i, j \in Idx(orders) :
        /\ i # j
        /\ IsProcessing(orders[i]) /\ IsProcessing(orders[j])
        => orders[i].botId # orders[j].botId

\* C5 as claimed: in every reachable state, for every bot b and order o
\* present, b.processingOrderId = o.id exactly when o.botId = b.id.
C5_SymmetricReferences ==
    \A i \in Idx(bots), j \in Idx(orders) :
        (bots[i].processingOrderId = orders[j].id) <=> (orders[j].botId = bots[i].id)

\* C6: an order that is COMPLETE stays COMPLETE with no botId in every later
\* state in which it is present; no step moves it to PENDING or PROCESSING
\* or gives it a bot.
C6_CompleteIsTerminal ==
    [][\A i \in Idx(orders) :
         IsComplete(orders[i]) =>
            \A j \in Idx(orders') :
               orders'[j].id = orders[i].id =>
                  /\ orders'[j].status = "COMPLETE"
                  /\ orders'[j].botId = undefined
                  /\ orders'[j].startTime = undefined]_vars

\* An order is COMPLETE, the bots that existed have all been removed since,
\* and an order is PENDING again.
C6_Witness ==
    /\ \E i \in Idx(orders) : IsComplete(orders[i])
    /\ \E i \in Idx(orders) : IsPending(orders[i])
    /\ Len(bots) = 0
    /\ nextBotId > 1

\* C7 as claimed: cancelOrder(id) changes no order and no bot when id is
\* unknown (never given out, or cancelled and removed) or names a COMPLETE
\* order, and a COMPLETE order stays in the order sequence.
CancelIsNoOpFor(id) ==
    \/ ~HasOrder(orders, id)
    \/ FindOrder(orders, id).status = "COMPLETE"

C7_CancelNoOp ==
    /\ [][\A id \in OrderIds :
            cancelOrder(id) /\ CancelIsNoOpFor(id) =>
                orders' = orders /\ bots' = bots]_vars
    /\ [][\A i \in Idx(orders) :
            IsComplete(orders[i]) =>
               \E j \in Idx(orders') :
                  orders'[j].id = orders[i].id /\ IsComplete(orders'[j])]_vars

\* C8 as claimed: an order cancelled while PENDING is absent from the
\* pending list right after the command, and no later step assigns a bot
\* to an order under cancellation.
C8_CancelledPendingGone ==
    /\ [][\A id \in OrderIds :
            /\ cancelOrder(id)
            /\ HasOrder(orders, id)
            /\ FindOrder(orders, id).status = "PENDING"
            => \A j \in Idx(orders') :
                  orders'[j].id = id => orders'[j].status # "PENDING"]_vars
    /\ [][\A i \in Idx(orders) :
            orders[i].id \in removals /\ IsPending(orders[i]) =>
               \A j \in Idx(orders') :
                  orders'[j].id = orders[i].id =>
                     orders'[j].status # "PROCESSING"]_vars

\* The effect of cancelOrder(id) on the bot and timer of a PROCESSING order.
CancelFreesItsBot ==
    \A id \in OrderIds :
        /\ cancelOrder(id)
        /\ HasOrder(orders, id)
        /\ cancelFreesBot(FindOrder(orders, id))
        => LET b == FindOrder(orders, id).botId
           IN  /\ \A i \in Idx(bots') :
                     bots'[i].id = b =>
                        /\ bots'[i].status = "IDLE"
                        /\ bots'[i].processingOrderId = undefined
               /\ <<b, id>> \notin timeouts'
               /\ freedBot' = b

\* Bot b is PROCESSING the head of the prioritized pending orders after the step.
TakesHead(b) ==
    \E i \in Idx(bots') :
        /\ bots'[i].id = b
        /\ bots'[i].status = "PROCESSING"
        /\ bots'[i].processingOrderId = prioritizedOrdersOf(orders)[1].id

\* C9 as claimed: cancelOrder on a PROCESSING order leaves its bot IDLE
\* with no processingOrderId and its cook timer cancelled, and the matching
\* step that follows assigns the freed bot to the head pending order.
C9_FreedBotTakesHead ==
    /\ [][CancelFreesItsBot]_vars
    /\ [][freedBot # 0 /\ HasBot(bots, freedBot) /\ orderProcessingEffect
            => TakesHead(freedBot)]_vars

\* C9 (amended): cancelOrder on a PROCESSING order leaves its bot IDLE with
\* no processingOrderId and its cook timer cancelled; if a PENDING order
\* exists a matching step can follow, and it assigns the head pending order
\* to the IDLE bot of lowest id, which is the freed bot when no bot of lower
\* id is IDLE.
C9_LowestIdleBotTakesHead ==
    /\ [][CancelFreesItsBot]_vars
    /\ [][freedBot # 0 /\ HasBot(bots, freedBot) /\ Len(prioritizedOrdersOf(orders)) > 0
            => ENABLED orderProcessingEffect]_vars
    /\ [][freedBot # 0 /\ HasBot(bots, freedBot) /\ orderProcessingEffect
            => /\ TakesHead(idleBotsOf(bots)[1].id)
               /\ \A i \in Idx(bots) : IsIdle(bots[i]) => idleBotsOf(bots)[1].id <= bots[i].id
               /\ (\A i \in Idx(bots) : IsIdle(bots[i]) => bots[i].id >= freedBot)
                     => TakesHead(freedBot)]_vars

\* cancelOrder has just set a bot IDLE, it is the only IDLE bot, and an
\* order is PENDING for it.
C9_Witness ==
    /\ freedBot # 0
    /\ HasBot(bots, freedBot)
    /\ Len(idleBotsOf(bots)) = 1
    /\ idleBotsOf(bots)[1].id = freedBot
    /\ Len(prioritizedOrdersOf(orders)) > 0
    /\ Len(bots) > 1

\* C10: when removeBot removes a bot that is processing a VIP order, that
\* order is PENDING afterwards, behind every VIP order that was already
\* PENDING and ahead of every PENDING NORMAL order.
PosOf(os, id) == CHOOSE i \in 1..Len(os) : os[i].id = id

C10_ReturnedVIPSlot ==
    [][(/\ removeBot
        /\ Len(bots) > 0
        /\ removeBotReturns(bots[Len(bots)])
        /\ HasOrder(orders, bots[Len(bots)].processingOrderId)
        /\ FindOrder(orders, bots[Len(bots)].processingOrderId).isVIP)
       => LET id == bots[Len(bots)].processingOrderId
          IN  /\ HasOrder(orders', id)
              /\ FindOrder(orders', id).status = "PENDING"
              /\ \A i \in Idx(orders) :
                    IsVIPPending(orders[i]) /\ orders[i].id # id =>
                       /\ HasOrder(orders', orders[i].id)
                       /\ PosOf(orders', orders[i].id) < PosOf(orders', id)
              /\ \A j \in Idx(orders') :
                    IsNormalPending(orders'[j]) => PosOf(orders', id) < j]_vars

\* A VIP order stands PENDING behind a PENDING VIP order submitted after it
\* and ahead of a PENDING NORMAL order.
C10_Witness ==
    \E i, j, k \in Idx(orders) :
        /\ i < j /\ j < k
        /\ IsVIPPending(orders[i]) /\ IsVIPPending(orders[j])
        /\ orders[i].id > orders[j].id
        /\ IsNormalPending(orders[k])

----------------------------------------------------------------------------
\* C11: when removeBot removes a bot that is processing order o, o is PENDING
\* afterwards with botId and startTime cleared, the cook timer of that pair
\* is cancelled and the bot is gone for good; an order becomes COMPLETE only
\* in the step in which the cook timer of the pair (its present bot, itself)
\* fires while that bot is processing it, so the returned order is COMPLETE
\* only after a bot that is present has been assigned to it and that pair's
\* own timer has fired.
C11_ReturnedOrderNeedsNewPair ==
    /\ [][(/\ removeBot
           /\ Len(bots) > 0
           /\ removeBotReturns(bots[Len(bots)])
           /\ HasOrder(orders, bots[Len(bots)].processingOrderId))
          => LET b == bots[Len(bots)].id
                 o == bots[Len(bots)].processingOrderId
             IN  /\ HasOrder(orders', o)
                 /\ FindOrder(orders', o).status = "PENDING"
                 /\ FindOrder(orders', o).botId = undefined
                 /\ FindOrder(orders', o).startTime = undefined
                 /\ <<b, o>> \notin timeouts'
                 /\ ~HasBot(bots', b)]_vars
    /\ [][\A b \in BotIds :
            b < nextBotId /\ ~HasBot(bots, b) => ~HasBot(bots', b)]_vars
    /\ [][\A i \in Idx(orders) :
            ~IsComplete(orders[i]) =>
               \A j \in Idx(orders') :
                  orders'[j].id = orders[i].id /\ IsComplete(orders'[j]) =>
                     /\ IsProcessing(orders[i])
                     /\ pairingLive(bots, orders[i].botId, orders[i].id)
                     /\ <<orders[i].botId, orders[i].id>> \in timeouts
                     /\ handleOrderComplete(orders[i].botId, orders[i].id)]_vars

\* A NORMAL order is COMPLETE behind a NORMAL order submitted after it: it
\* was returned by removeBot and completed by another bot since.
C11_Witness ==
    \E i, j \in Idx(orders) :
        /\ i < j
        /\ IsNormal(orders[i]) /\ IsNormal(orders[j])
        /\ orders[i].id > orders[j].id
        /\ IsComplete(orders[j])
        /\ Len(bots) < nextBotId - 1

\* The ids of the bots present.
BotIdsOf(bs) == {bs[i].id : i \in 1..Len(bs)}

\* C12: removeBot removes the bot with the highest id among the bots
\* present, whatever its status, and every other bot stays as it is, in
\* its place.
C12_RemovesHighestId ==
    [][removeBot /\ Len(bots) > 0
         => LET top == CHOOSE b \in BotIdsOf(bots) : \A c \in BotIdsOf(bots) : c <= b
            IN  /\ ~HasBot(bots', top)
                /\ Len(bots') = Len(bots) - 1
                /\ \A i \in Idx(bots') : bots'[i] = bots[i]
                /\ \A i \in Idx(bots) :
                      bots[i].id # top => \E j \in Idx(bots') : bots'[j] = bots[i]]_vars

\* The bot of highest id was removed while PROCESSING (its order stands
\* PENDING behind an order submitted after it) and the bot that is left is
\* still PROCESSING its order.
C12_Witness ==
    /\ Len(bots) >= 1
    /\ Len(bots) < nextBotId - 1
    /\ \A i \in Idx(bots) :
          /\ bots[i].status = "PROCESSING"
          /\ HasOrder(orders, bots[i].processingOrderId)
          /\ FindOrder(orders, bots[i].processingOrderId).botId = bots[i].id
    /\ \E i, j \in Idx(orders) :
          /\ i < j
          /\ IsNormalPending(orders[i]) /\ IsNormalPending(orders[j])
          /\ orders[i].id > orders[j].id

\* C13: removeBot with no bot present changes nothing: orders, bots, both
\* id counters and the scheduled timers stay as they are.
C13_RemoveBotWithoutBots ==
    [][removeBot /\ Len(bots) = 0
         => UNCHANGED <<orders, bots, nextOrderId, nextBotId, timers>>]_vars

\* No bot is present after bots were added and removed, while orders and
\* live timers exist for removeBot to leave alone.
C13_Witness ==
    /\ Len(bots) = 0
    /\ nextBotId > 1
    /\ Len(orders) > 0
    /\ Len(timers) > 0

\* C14: the cook timer of pair (b, o) firing while bot b is absent, or
\* IDLE, or processing another order, changes no order and no bot.
C14_StaleCompletionDiscarded ==
    [][\A b \in BotIds, o \in OrderIds :
         (/\ handleOrderComplete(b, o)
          /\ \/ ~HasBot(bots, b)
             \/ FindBot(bots, b).status = "IDLE"
             \/ FindBot(bots, b).processingOrderId # o)
         => orders' = orders /\ bots' = bots]_vars

\* Order orders[i] has been left behind by a discarded completion.
StaleCompletionLeft(os, bs, ts, i) ==
    /\ IsProcessing(os[i])
    /\ os[i].botId # undefined
    /\ \A k \in 1..Len(ts) :
          /\ ts[k] # CookTimer(os[i].botId, os[i].id)
          /\ ts[k] # RemovalTimer(os[i].id)
    /\ ~pairingLive(bs, os[i].botId, os[i].id)

\* The cook timer of a pair has fired and was discarded: the order is still
\* PROCESSING under that bot's id, is not being removed and has no cook
\* timer left, and the bot is absent, IDLE or processing another order.
C14_Witness == \E i \in Idx(orders) : StaleCompletionLeft(orders, bots, timers, i)

\* C15: an order that moves from PENDING to PROCESSING in a step is the
\* first PENDING VIP order of the sequence if a VIP order is PENDING, and
\* the first PENDING NORMAL order otherwise; so no NORMAL order is taken
\* while a VIP order is PENDING.
C15_VIPTakenFirst ==
    [][\A i \in Idx(orders) :
         (/\ IsPending(orders[i])
          /\ \E j \in Idx(orders') :
                orders'[j].id = orders[i].id /\ IsProcessing(orders'[j]))
         => IF \E k \in Idx(orders) : IsVIPPending(orders[k])
            THEN /\ orders[i].isVIP
                 /\ \A k \in 1..(i - 1) : ~IsVIPPending(orders[k])
            ELSE \A k \in 1..(i - 1) : ~IsNormalPending(orders[k])]_vars

\* A VIP order is PROCESSING while a NORMAL order submitted before it is
\* still PENDING.
C15_Witness ==
    \E i, j \in Idx(orders) :
        /\ orders[i].isVIP /\ IsProcessing(orders[i])
        /\ IsNormalPending(orders[j])
        /\ orders[j].id < orders[i].id
        /\ pairingLive(bots, orders[i].botId, orders[i].id)

\* An IDLE bot and a PENDING order both exist.
MatchPossible ==
    /\ \E i \in Idx(bots) : IsIdle(bots[i])
    /\ \E i \in Idx(orders) : IsPending(orders[i])

\* Whenever an IDLE bot and a PENDING order exist the matching step can be
\* taken with no command; it forms exactly one pair; and a state with no
\* IDLE bot or no PENDING order follows.
MatchingReachesFixedPoint ==
    /\ [](MatchPossible => ENABLED orderProcessingEffect)
    /\ [][orderProcessingEffect =>
            /\ Len(idleBotsOf(bots')) = Len(idleBotsOf(bots)) - 1
            /\ Len(SelectSeq(orders', IsPending)) = Len(pendingOrders) - 1
            /\ Len(SelectSeq(orders', IsProcessing)) = Len(processingOrders) + 1]_vars
    /\ MatchPossible ~> ~MatchPossible

\* C16 as claimed: matching is driven to a fixed point, and addBot with a
\* PENDING order present leads, by the matching steps that follow it, to
\* the new bot processing an order.
C16_NewBotGetsOrder ==
    /\ MatchingReachesFixedPoint
    /\ [][addBot /\ Len(pendingOrders) > 0 =>
            FindBot(MatchAll(orders', bots').bots, nextBotId).status = "PROCESSING"]_vars

\* C16 (amended): matching is driven to a fixed point; after addBot with a
\* PENDING order present the matching steps that follow pair the IDLE bots
\* in ascending id order with the pending orders until none of one kind is
\* left, so the new bot, which comes last, is processing an order exactly
\* when at least as many orders are PENDING as bots are IDLE, and always
\* when no other bot is IDLE.
C16_MatchingToFixedPoint ==
    /\ MatchingReachesFixedPoint
    /\ [][addBot /\ Len(pendingOrders) > 0 =>
            LET m == MatchAll(orders', bots')
                newBot == FindBot(m.bots, nextBotId)
            IN  /\ Len(idleBotsOf(m.bots)) = 0 \/ Len(prioritizedOrdersOf(m.orders)) = 0
                /\ \E i \in Idx(bots') :
                      IsIdle(bots'[i]) /\ m.bots[i].status = "PROCESSING"
                /\ Len(idleBotsOf(bots)) = 0 => newBot.status = "PROCESSING"
                /\ newBot.status = "PROCESSING"
                      <=> Len(pendingOrders) >= Len(idleBotsOf(bots'))]_vars

\* The bot added last is PROCESSING an order, so is every other bot, and
\* an order is still PENDING: matching has stopped for want of an IDLE bot.
C16_Witness ==
    /\ Len(bots) >= 2
    /\ bots[Len(bots)].id = nextBotId - 1
    /\ \A i \in Idx(bots) : pairingLive(bots, bots[i].id, bots[i].processingOrderId)
    /\ \E i \in Idx(orders) : IsPending(orders[i])

\* The ids of a list of orders, in list order.
IdsOf(s) == [i \in 1..Len(s) |-> s[i].id]

\* A bot that is PROCESSING order orderId.
BusyBot(id, orderId) == [id |-> id, status |-> "PROCESSING", processingOrderId |-> orderId]

\* A state of the scenario: the counters, the three lists by id, the bots,
\* the live cook timers; order 1 is NORMAL and order 2 is VIP and stands
\* first in the sequence, every PROCESSING order names the bot that is
\* processing it, and no order is being removed.
Scene(nOrd, nBot, pend, proc, comp, botSeq, cooks) ==
    /\ nextOrderId = nOrd
    /\ nextBotId = nBot
    /\ IdsOf(pendingOrders) = pend
    /\ IdsOf(processingOrders) = proc
    /\ IdsOf(completeOrders) = comp
    /\ bots = botSeq
    /\ timeouts = cooks
    /\ removals = {}
    /\ IdsOf(orders) \in {<<>>, <<1>>, <<2, 1>>}
    /\ \A i \in Idx(orders) :
          /\ orders[i].isVIP <=> orders[i].id = 2
          /\ IF IsProcessing(orders[i])
             THEN pairingLive(bots, orders[i].botId, orders[i].id)
             ELSE orders[i].botId = undefined /\ orders[i].startTime = undefined

Scene_Empty == Scene(1, 1, <<>>, <<>>, <<>>, <<>>, {})
Scene_Normal == Scene(2, 1, <<1>>, <<>>, <<>>, <<>>, {})
Scene_Submitted == Scene(3, 1, <<2, 1>>, <<>>, <<>>, <<>>, {})
Scene_OneBot == Scene(3, 2, <<2, 1>>, <<>>, <<>>, <<NewBot(1)>>, {})
Scene_FirstTaken == Scene(3, 2, <<1>>, <<2>>, <<>>, <<BusyBot(1, 2)>>, {<<1, 2>>})
Scene_TwoBots ==
    Scene(3, 3, <<1>>, <<2>>, <<>>, <<BusyBot(1, 2), NewBot(2)>>, {<<1, 2>>})
Scene_BothTaken ==
    Scene(3, 3, <<>>, <<2, 1>>, <<>>, <<BusyBot(1, 2), BusyBot(2, 1)>>,
          {<<1, 2>>, <<2, 1>>})
Scene_VIPDone ==
    Scene(3, 3, <<>>, <<1>>, <<2>>, <<NewBot(1), BusyBot(2, 1)>>, {<<2, 1>>})
Scene_NormalDone ==
    Scene(3, 3, <<>>, <<2>>, <<1>>, <<BusyBot(1, 2), NewBot(2)>>, {<<1, 2>>})
Scene_BothDone == Scene(3, 3, <<>>, <<>>, <<2, 1>>, <<NewBot(1), NewBot(2)>>, {})

\* Some cook timer fires.
SomeCompletion ==
    \E botId \in BotIds, orderId \in OrderIds : handleOrderComplete(botId, orderId)

\* C17: from the empty system, NORMAL order 1 then VIP order 2 give pending
\* [2, 1]; addBot and the matching step that follows give processing [2],
\* pending [1]; a second addBot and its matching step give processing
\* [2, 1], pending []; the two cook timers then fire, and in whichever order
\* they do, complete is [2, 1] with both bots IDLE.  Each step of the
\* scenario is possible where the scenario has arrived.
C17_Scenario ==
    /\ [][/\ Scene_Empty /\ addNormalOrder => Scene_Normal'
          /\ Scene_Normal /\ addVIPOrder => Scene_Submitted'
          /\ Scene_Submitted /\ addBot => Scene_OneBot'
          /\ Scene_OneBot /\ orderProcessingEffect => Scene_FirstTaken'
          /\ Scene_FirstTaken /\ addBot => Scene_TwoBots'
          /\ Scene_TwoBots /\ orderProcessingEffect => Scene_BothTaken'
          /\ Scene_BothTaken /\ SomeCompletion => Scene_VIPDone' \/ Scene_NormalDone'
          /\ (Scene_VIPDone \/ Scene_NormalDone) /\ SomeCompletion
                => Scene_BothDone']_vars
    /\ [](/\ Scene_OneBot \/ Scene_TwoBots => ENABLED orderProcessingEffect
          /\ Scene_BothTaken \/ Scene_VIPDone \/ Scene_NormalDone
                => ENABLED SomeCompletion)

\* The end of the scenario: complete is [2, 1], both bots are IDLE and no
\* timer is left.
C17_Witness == Scene_BothDone /\ IdsOf(orders) = <<2, 1>> /\ timers = <<>>

\* C18: the orders present have different ids, all below the counter; the
\* counter never goes down; an order that appears in a step comes from a
\* submission, carries the counter's value as its id, which is greater than
\* every id given out before (present or removed since), and moves the
\* counter up by one.
C18_OrderIdsFresh ==
    /\ [](/\ \A i, j \in Idx(orders) : orders[i].id = orders[j].id => i = j
          /\ \A i \in Idx(orders) : orders[i].id < nextOrderId)
    /\ [][/\ nextOrderId' >= nextOrderId
          /\ \A j \in Idx(orders') :
                ~HasOrder(orders, orders'[j].id) =>
                   /\ addNormalOrder \/ addVIPOrder
                   /\ orders'[j].id = nextOrderId
                   /\ nextOrderId' = nextOrderId + 1
                   /\ \A i \in Idx(orders) : orders[i].id < orders'[j].id]_vars

\* The order submitted last is present and an order with an earlier id has
\* been cancelled and removed.
C18_Witness ==
    /\ HasOrder(orders, nextOrderId - 1)
    /\ \E id \in 1..(nextOrderId - 2) : ~HasOrder(orders, id)
    /\ removals = {}

\* C19: every order present stands once in the sequence and in exactly one
\* of the pending, processing and complete lists; a removal timer is set
\* only by cancelOrder on that order; an order leaves the sequence only in
\* the step in which its removal timer fires; so addBot, removeBot, the
\* submissions, the matching step and the completions keep every order.
C19_OnlyCancelRemoves ==
    /\ [](/\ \A id \in OrderIds :
                Cardinality({i \in Idx(orders) : orders[i].id = id}) <= 1
          /\ Len(pendingOrders) + Len(processingOrders) + Len(completeOrders)
                = Len(orders))
    /\ [][\A id \in OrderIds :
            id \in removals' /\ id \notin removals => cancelOrder(id)]_vars
    /\ [][\A i \in Idx(orders) :
            ~HasOrder(orders', orders[i].id) =>
               /\ orders[i].id \in removals
               /\ removalTimeout(orders[i].id)]_vars
    /\ [][addBot \/ removeBot \/ addNormalOrder \/ addVIPOrder
            \/ orderProcessingEffect \/ SomeCompletion
            => \A i \in Idx(orders) : HasOrder(orders', orders[i].id)]_vars

\* No order was ever cancelled: every id given out is present, one order is
\* PENDING, one PROCESSING and one COMPLETE, after a bot has been removed.
C19_Witness ==
    /\ Len(orders) = nextOrderId - 1
    /\ Len(pendingOrders) > 0
    /\ Len(processingOrders) > 0
    /\ Len(completeOrders) > 0
    /\ Len(bots) < nextBotId - 1
    /\ removals = {}

\* C20 as claimed: in a step in which the cook timer of pair (b, o) fires
\* and bot b goes from PROCESSING to IDLE, exactly one order changes: order
\* o, which bot b was processing, goes from PROCESSING to COMPLETE with
\* botId and startTime cleared.
C20_CompletionCompletesOrder ==
    [][\A b \in BotIds, o \in OrderIds :
         (/\ handleOrderComplete(b, o)
          /\ HasBot(bots, b) /\ FindBot(bots, b).status = "PROCESSING"
          /\ HasBot(bots', b) /\ FindBot(bots', b).status = "IDLE")
         => /\ FindBot(bots, b).processingOrderId = o
            /\ Len(orders') = Len(orders)
            /\ \E i \in Idx(orders) :
                  /\ orders[i].id = o
                  /\ IsProcessing(orders[i])
                  /\ orders'[i] = [orders[i] EXCEPT !.status = "COMPLETE",
                                                    !.botId = undefined,
                                                    !.startTime = undefined]
                  /\ \A j \in Idx(orders) : j # i => orders'[j] = orders[j]]_vars

----------------------------------------------------------------------------
\* A step of one of the commands cancelOrder, removeBot, addNormalOrder and
\* addVIPOrder.
CommandStep ==
    \/ \E orderId \in OrderIds : cancelOrder(orderId)
    \/ removeBot
    \/ addNormalOrder
    \/ addVIPOrder

\* Order id is present, PENDING or PROCESSING, and not under cancellation.
Unfinished(id) ==
    /\ HasOrder(orders, id)
    /\ FindOrder(orders, id).status \in {"PENDING", "PROCESSING"}
    /\ id \notin removals

\* C21 as claimed: when from some point on no cancelOrder, removeBot or
\* submission step is taken and a bot exists, then with the effect and the
\* timers running every order that is PENDING or PROCESSING and not under
\* cancellation reaches COMPLETE: from some point on no such order is left.
C21_EveryOrderCompletes ==
    \A id \in OrderIds :
        \/ []<><<CommandStep>>_vars
        \/ []<>(Len(bots) = 0)
        \/ <>[]~Unfinished(id)

\* C22: a bot that goes from IDLE to PROCESSING in a step has the lowest
\* id of the bots that were IDLE; no bot is assigned while a bot of lower
\* id is IDLE.
C22_LowestIdleBotAssigned ==
    [][\A i \in Idx(bots) :
         (/\ IsIdle(bots[i])
          /\ \E j \in Idx(bots') :
                bots'[j].id = bots[i].id /\ bots'[j].status = "PROCESSING")
         => \A k \in Idx(bots) : IsIdle(bots[k]) => bots[i].id <= bots[k].id]_vars

\* The bot of lowest id is PROCESSING the only order there has been and a
\* bot of higher id, added before the order was submitted, is IDLE.
C22_Witness ==
    /\ Len(bots) >= 2
    /\ pairingLive(bots, bots[1].id, 1)
    /\ \A i \in 2..Len(bots) : IsIdle(bots[i]) /\ bots[i].id > bots[1].id
    /\ nextOrderId = 2
    /\ IdsOf(processingOrders) = <<1>>
    /\ removals = {}

\* C23: addVIPOrder puts the new VIP order right behind the last PENDING
\* VIP order; with no VIP order PENDING, right before the first PENDING
\* NORMAL order; with no order PENDING, at the end.  The orders that were
\* there keep their fields and their relative order.
C23_VIPInsertedBehindVIPs ==
    [][addVIPOrder =>
         LET n == Len(orders)
             vips == {i \in Idx(orders) : IsVIPPending(orders[i])}
             normals == {i \in Idx(orders) : IsNormalPending(orders[i])}
             before == IF vips # {}
                       THEN CHOOSE i \in vips : \A k \in vips : k <= i
                       ELSE IF normals # {}
                            THEN (CHOOSE i \in normals : \A k \in normals : i <= k) - 1
                            ELSE n
         IN  /\ Len(orders') = n + 1
             /\ orders'[before + 1].id = nextOrderId
             /\ IsVIPPending(orders'[before + 1])
             /\ SubSeq(orders', 1, before) = SubSeq(orders, 1, before)
             /\ SubSeq(orders', before + 2, n + 1) = SubSeq(orders, before + 1, n)]_vars

\* The VIP order submitted last stands PENDING right behind a PENDING VIP
\* order and right before a PENDING NORMAL order submitted before it.
C23_Witness ==
    \E i \in Idx(orders) :
        /\ i + 2 <= Len(orders)
        /\ IsVIPPending(orders[i])
        /\ IsVIPPending(orders[i + 1])
        /\ orders[i + 1].id = nextOrderId - 1
        /\ IsNormalPending(orders[i + 2])
        /\ orders[i].id < orders[i + 2].id

\* C24: a NORMAL order is put at the very end of the order sequence, behind
\* every order of any status and priority, both when it is submitted and
\* when removeBot returns it; the other orders keep their relative order.
C24_NormalGoesLast ==
    /\ [][addNormalOrder =>
            /\ Len(orders') = Len(orders) + 1
            /\ orders'[Len(orders')].id = nextOrderId
            /\ IsNormalPending(orders'[Len(orders')])
            /\ SubSeq(orders', 1, Len(orders)) = orders]_vars
    /\ [][(/\ removeBot
           /\ Len(bots) > 0
           /\ removeBotReturns(bots[Len(bots)])
           /\ HasOrder(orders, bots[Len(bots)].processingOrderId)
           /\ ~FindOrder(orders, bots[Len(bots)].processingOrderId).isVIP)
          => LET o == bots[Len(bots)].processingOrderId
                 Other(x) == x.id # o
             IN  /\ Len(orders') = Len(orders)
                 /\ orders'[Len(orders')].id = o
                 /\ IsNormalPending(orders'[Len(orders')])
                 /\ SubSeq(orders', 1, Len(orders) - 1) = SelectSeq(orders, Other)]_vars

\* A NORMAL order returned by removeBot stands PENDING at the end of the
\* sequence, behind a PROCESSING order submitted after it.
C24_Witness ==
    /\ Len(orders) >= 2
    /\ IsNormalPending(orders[Len(orders)])
    /\ \E i \in 1..(Len(orders) - 1) :
          /\ IsProcessing(orders[i])
          /\ orders[i].id > orders[Len(orders)].id
    /\ Len(bots) < nextBotId - 1

\* C25: a submission leaves the bots as they are and every order that was
\* there with the fields it had: a PROCESSING order stays PROCESSING with
\* the same bot and start time.
C25_SubmitLeavesWorkAlone ==
    [][addNormalOrder \/ addVIPOrder =>
         /\ bots' = bots
         /\ \A i \in Idx(orders) :
               \E j \in Idx(orders') : orders'[j] = orders[i]]_vars

\* A VIP order stands PENDING behind a NORMAL order that a bot is
\* processing: it was submitted while that order was in process.
C25_Witness ==
    \E i, j \in Idx(orders) :
        /\ i < j
        /\ IsNormal(orders[i]) /\ IsProcessing(orders[i])
        /\ pairingLive(bots, orders[i].botId, orders[i].id)
        /\ IsVIPPending(orders[j])
        /\ orders[j].id > orders[i].id

\* C26: in every reachable state a PROCESSING order has a botId and a
\* startTime, and a PENDING or COMPLETE order has neither.
C26_BotIdIffProcessing ==
    \A i \in Idx(orders) :
        IF IsProcessing(orders[i])
        THEN orders[i].botId # undefined /\ orders[i].startTime # undefined
        ELSE orders[i].botId = undefined /\ orders[i].startTime = undefined

\* An order is COMPLETE, an order is PROCESSING, and an order returned by
\* removeBot is PENDING behind an order submitted after it.
C26_Witness ==
    /\ \E i \in Idx(orders) : IsComplete(orders[i])
    /\ \E i, j \in Idx(orders) :
          /\ i < j
          /\ IsProcessing(orders[i])
          /\ IsNormalPending(orders[j])
          /\ orders[i].id > orders[j].id

\* C27: in every reachable state a bot has a processingOrderId exactly
\* when its status is PROCESSING.
C27_OrderIdIffProcessing ==
    \A i \in Idx(bots) :
        bots[i].processingOrderId # undefined <=> bots[i].status = "PROCESSING"

\* A bot set IDLE by cancelOrder stands beside the order it was processing,
\* which is still there under removal and still names it.
C27_Witness ==
    \E i \in Idx(bots), j \in Idx(orders) :
        /\ IsIdle(bots[i])
        /\ IsProcessing(orders[j])
        /\ orders[j].botId = bots[i].id
        /\ orders[j].id \in removals

\* C28: the bots present have different ids, all below the counter; the
\* counter never goes down; a bot that appears in a step comes from addBot
\* and carries the counter's value, above the id of every bot created
\* before, and a removed bot's id never comes back.  A cook timer (b, o)
\* is scheduled only by the matching step that pairs IDLE bot b with
\* PENDING order o, when no timer of that key is live, and leaves o
\* PROCESSING under b; o is PENDING again only in a step that removes b:
\* so no key is scheduled twice.
C28_BotIdsFresh ==
    /\ [](/\ \A i, j \in Idx(bots) : bots[i].id = bots[j].id => i = j
          /\ \A i \in Idx(bots) : bots[i].id < nextBotId)
    /\ [][/\ nextBotId' >= nextBotId
          /\ \A j \in Idx(bots') :
                ~HasBot(bots, bots'[j].id) =>
                   /\ addBot
                   /\ bots'[j].id = nextBotId
                   /\ nextBotId' = nextBotId + 1
                   /\ \A i \in Idx(bots) : bots[i].id < bots'[j].id]_vars
    /\ [][\A b \in BotIds :
            b < nextBotId /\ ~HasBot(bots, b) => ~HasBot(bots', b)]_vars
    /\ [][\A b \in BotIds, o \in OrderIds :
            <<b, o>> \in timeouts' /\ <<b, o>> \notin timeouts =>
               /\ orderProcessingEffect
               /\ HasBot(bots, b) /\ IsIdle(FindBot(bots, b))
               /\ HasOrder(orders, o) /\ IsPending(FindOrder(orders, o))
               /\ pairingLive(bots', b, o)
               /\ IsProcessing(FindOrder(orders', o))
               /\ FindOrder(orders', o).botId = b]_vars
    /\ [][\A b \in BotIds, o \in OrderIds :
            (/\ orderProcessingEffect
             /\ HasBot(bots, b) /\ IsIdle(FindBot(bots, b))
             /\ pairingLive(bots', b, o))
            => <<b, o>> \notin timeouts /\ <<b, o>> \in timeouts']_vars
    /\ [][\A i \in Idx(orders) :
            (/\ IsProcessing(orders[i])
             /\ \E j \in Idx(orders') :
                   orders'[j].id = orders[i].id /\ IsPending(orders'[j]))
            => ~HasBot(bots', orders[i].botId)]_vars

\* The only bot present was added after a bot was removed; it carries id 2
\* and is processing the only order there has been, under its own key.
C28_Witness ==
    /\ Len(bots) = 1
    /\ bots[1].id = nextBotId - 1
    /\ bots[1].id > 1
    /\ nextOrderId = 2
    /\ pairingLive(bots, bots[1].id, 1)
    /\ timeouts = {<<bots[1].id, 1>>}

\* C29: cancelOrder on a PENDING or PROCESSING order sets its removal
\* timer; an order whose removal timer is set is absent at some later
\* point; the firing of the timer takes the order out; and an order that is
\* absent after its id was given out stays absent in every step, removeBot
\* included.
C29_CancelledOrderGoes ==
    /\ [][\A id \in OrderIds :
            (/\ cancelOrder(id)
             /\ HasOrder(orders, id)
             /\ FindOrder(orders, id).status \in {"PENDING", "PROCESSING"})
            => id \in removals']_vars
    /\ [][\A id \in OrderIds :
            removalTimeout(id) => ~HasOrder(orders', id)]_vars
    /\ [][\A id \in OrderIds :
            id < nextOrderId /\ ~HasOrder(orders, id) => ~HasOrder(orders', id)]_vars
    /\ \A id \in OrderIds : (id \in removals) ~> ~HasOrder(orders, id)

\* A bot is PROCESSING an order that was cancelled and has left the
\* sequence: removeBot finds no order to return.
C29_Witness ==
    \E i \in Idx(bots) :
        /\ bots[i].status = "PROCESSING"
        /\ bots[i].processingOrderId # undefined
        /\ ~HasOrder(orders, bots[i].processingOrderId)
        /\ i = Len(bots)

\* C30 as claimed: in every reachable state a cook timer for (b, o) is
\* live exactly when bot b is present, PROCESSING, with processingOrderId o.
C30_TimersMatchPairings ==
    \A b \in BotIds, o \in OrderIds :
        <<b, o>> \in timeouts <=> pairingLive(bots, b, o)

\* C31 as claimed: in every reachable state every PROCESSING bot names an
\* order that is present in the order sequence with status PROCESSING.
C31_BusyBotHasOrder ==
    \A i \in Idx(bots) :
        bots[i].status = "PROCESSING" =>
            /\ HasOrder(orders, bots[i].processingOrderId)
            /\ IsProcessing(FindOrder(orders, bots[i].processingOrderId))

\* C32 as claimed: in every reachable state every PROCESSING order names a
\* bot that is present in the bot pool with status PROCESSING.
C32_ProcessingOrderHasBusyBot ==
    \A i \in Idx(orders) :
        IsProcessing(orders[i]) =>
            /\ HasBot(bots, orders[i].botId)
            /\ FindBot(bots, orders[i].botId).status = "PROCESSING"

====
